---- MODULE Spec2Model ----
(***************************************************************************)
(* Verification model of the yuragi haptic generator backend:              *)
(*   haptic_system/channel.py, waveform.py, device.py, controller.py,      *)
(*   yuragi_animator.py and the request handlers of main.py.               *)
(*                                                                         *)
(* Units.  Amplitudes and magnitudes are in thousandths (1000 = 1.0),      *)
(* frequencies in Hz, phases and angles in whole degrees, the cumulative   *)
(* time of a channel in samples (tau = cumulative_time / sample_rate), and *)
(* waveform samples in thousandths.                                        *)
(***************************************************************************)
EXTENDS Integers, Sequences, FiniteSets, TLC

None == "None"

\* ------------------------------------------------------------ constants
MIN_FREQUENCY == 30
MAX_FREQUENCY == 120
MIN_AMPLITUDE == 0
\* 1.0, in thousandths
MAX_AMPLITUDE == 1000
\* HapticController.__init__ default sample rate
sample_rate == 44100
\* HapticChannel.__init__: noise_level = 0.03, in hundredths
noise_level == 3
\* HapticChannel.__init__: resonator_f_n = 360.0
resonator_f_n == 360
\* HapticChannel.__init__: resonator_zeta = 0.08, in hundredths
resonator_zeta == 8

\* ------------------------------------------------------------ bounds
\* frames per audio callback in the model (block_size)
Frames == 2
\* the callback renders while every channel's cumulative time is below this
MaxTime == 4
\* samples of one control-plane render (POST waveform, a streamer tick) in the model
SnapshotSamples == 1
\* entries kept in the ring of callback durations (self._max_latency_samples is 100
\* in the source; the ring of the model is shorter)
MaxLatencySamples == 2
\* callbacks that record a duration in one behaviour
MaxCallbacks == 3

Channels == 0 .. 3
Writers == {"w1", "w2"}
AudioThread == "audio"

VARIABLES
    params,           \* [Channels -> [frequency, amplitude, phase, polarity]]
    is_active,        \* [Channels -> BOOLEAN]
    cumulative_time,  \* [Channels -> Nat], in samples
    lock,             \* HapticController._lock: "free" or the holding thread
    is_streaming,     \* HapticController.is_streaming
    stop_flag,        \* HapticController._stop_flag
    pc,               \* position of every thread of the controller model
    op,               \* the arguments and locals of every thread's current call
    committed,        \* history: channel state after the last completed locked operation
    observed_torn,    \* history: some block or snapshot saw a state that is not committed
    last_update,      \* history: outcome of the last finished update_parameters call
    resonator_enabled,\* [Channels -> BOOLEAN], HapticChannel.resonator_enabled
    out,              \* the block returned by the last direct get_next_chunk call
    last_render,      \* history: size and cumulative time before/after of that call
    run,              \* history: the blocks rendered since the parameters last changed
    active_animations,\* YURAGIAnimator._active_animations: [Actuators -> task id or 0]
    animation_configs,\* YURAGIAnimator._animation_configs: [Actuators -> preset or None]
    task,             \* the animation tasks: [TaskIds -> state of the task]
    call,             \* the start_animation / stop_animation call of every request
    last_cmd,         \* the last command given to update_callback for every actuator
    stream,           \* HapticController._stream: "None", "open" or "unstarted"
    outdata,          \* the host's output buffer: "stale", "zeros" or "wave"
    callback_times,   \* HapticController._callback_times, the ring of callback durations
    callbacks,        \* history: the number of callbacks that recorded a duration
    latency_seen,     \* the number of entries the last get_latency_ms averaged
    discrete_mode_enabled, \* HapticDevice.discrete_mode_enabled
    resonator_cfg,    \* [Channels -> [f_n, zeta]], HapticChannel.resonator_f_n / _zeta
    raised,           \* history: the error the last direct device or channel call, or
                      \* the last request of a handler that records it, ended with
    noise             \* [Channels -> [enabled, level]], HapticChannel.noise_enabled / _level

chanVars == <<params, is_active, cumulative_time>>
ctlVars == <<lock, is_streaming, stop_flag, pc, op>>
histVars == <<committed, observed_torn, last_update>>
renderVars == <<resonator_enabled, out, last_render, run>>
animVars == <<active_animations, animation_configs, task, call, last_cmd>>
hostVars == <<stream, outdata, callback_times, callbacks, latency_seen>>
cfgVars == <<discrete_mode_enabled, resonator_cfg, raised, noise>>

\* ------------------------------------------------------------ channel.py

\* HapticChannel.__init__: the parameters of a fresh channel
InitialParams == [frequency |-> 60, amplitude |-> 0, phase |-> 0, polarity |-> TRUE]

Has(e, k) == k \in DOMAIN e

\* HapticChannel.set_parameters: overwrite the provided fields, no validation
SetParameters(p, e) ==
    [frequency |-> IF Has(e, "frequency") THEN e.frequency ELSE p.frequency,
     amplitude |-> IF Has(e, "amplitude") THEN e.amplitude ELSE p.amplitude,
     phase     |-> IF Has(e, "phase") THEN e.phase ELSE p.phase,
     polarity  |-> IF Has(e, "polarity") THEN e.polarity ELSE p.polarity]

\* the early return of HapticChannel.get_next_chunk: silent block, nothing else done
Silent(p, active) == ~active \/ p.amplitude = 0

\* HapticChannel.get_next_chunk, effect on the cumulative time of a block of n samples
NextTime(p, active, tau, n) == IF Silent(p, active) THEN tau ELSE tau + n

\* ------------------------------------------------------------ device.py

\* HapticDevice.set_channel_parameters: ids outside 0..3 are ignored silently
SetChannelParameters(ps, ch_id, e) ==
    IF 0 <= ch_id /\ ch_id < 4
    THEN [ps EXCEPT ![ch_id] = SetParameters(ps[ch_id], e)]
    ELSE ps

\* Python list indexing self.device.channels[ch_id]: negative ids count from the end
IndexOk(ch_id) == -4 <= ch_id /\ ch_id < 4
ListIndex(ch_id) == IF ch_id < 0 THEN ch_id + 4 ELSE ch_id

\* np.cos(np.deg2rad(angle)) and np.sin(np.deg2rad(angle)) in thousandths, for the
\* angles of the model.  The float results at 90, 180, 270 and 360 degrees are not 0
\* but a residue of about 1e-16; its sign decides the polarity and is kept as
\* CosSign and SinSign (sin(0) is exactly 0.0).
Angles == {0, 45, 90, 135, 180, 225, 270, 315, 360}
Cos1000(a) ==
    CASE a \in {0, 360} -> 1000 [] a \in {45, 315} -> 707 [] a \in {90, 270} -> 0
      [] a \in {135, 225} -> -707 [] OTHER -> -1000
Sin1000(a) ==
    CASE a \in {0, 180, 360} -> 0 [] a \in {45, 135} -> 707 [] a = 90 -> 1000
      [] a \in {225, 315} -> -707 [] OTHER -> -1000
CosSign(a) == IF a \in {0, 45, 90, 315, 360} THEN 1 ELSE -1
SinSign(a) == IF a = 0 THEN 0 ELSE IF a \in {45, 90, 135, 180} THEN 1 ELSE -1

Abs(x) == IF x < 0 THEN -x ELSE x
\* sign of a float product m * t, where t has sign s (0.0 and -0.0 compare equal to 0)
SignOfProduct(m, s) == IF m = 0 THEN 0 ELSE IF m > 0 THEN s ELSE -s

\* the amplitude abs(m * t) of a component whose factor t is a float residue (about
\* 1e-16): it is not 0.0, so the channel is not silent; one thousandth stands for it
Residue == 1
\* abs(magnitude * t) in thousandths, t in thousandths with sign s
ComponentAmplitude(m, t, s) ==
    IF m * t = 0 /\ SignOfProduct(m, s) # 0 THEN Residue ELSE Abs(m * t) \div 1000

\* HapticDevice.set_vector_force: the parameters written to the X channel ...
VectorX(cmd) ==
    [frequency |-> cmd.frequency,
     amplitude |-> ComponentAmplitude(cmd.magnitude, Cos1000(cmd.angle), CosSign(cmd.angle)),
     phase     |-> 0,
     polarity  |-> SignOfProduct(cmd.magnitude, CosSign(cmd.angle)) >= 0]
\* a Y channel whose component is not inverted (y_amplitude = magnitude * sin)
VectorYUpright(cmd) ==
    [frequency |-> cmd.frequency,
     amplitude |-> ComponentAmplitude(cmd.magnitude, Sin1000(cmd.angle), SinSign(cmd.angle)),
     phase     |-> 0,
     polarity  |-> SignOfProduct(cmd.magnitude, SinSign(cmd.angle)) >= 0]
\* ... and to the Y channel (y_amplitude = -magnitude * sin)
VectorY(cmd) ==
    [frequency |-> cmd.frequency,
     amplitude |-> ComponentAmplitude(cmd.magnitude, Sin1000(cmd.angle), SinSign(cmd.angle)),
     phase     |-> 0,
     polarity  |-> SignOfProduct(-cmd.magnitude, SinSign(cmd.angle)) >= 0]
\* a device that drives the first actuator whatever the device id
BaseChannelFirst(device_id) == 0
BaseChannel(device_id) == (device_id - 1) * 2
ValidDevice(device_id) == device_id \in {1, 2}

\* HapticDevice.set_vector_force as a whole, for a valid device id
DeviceVectorParams(ps, cmd) ==
    SetChannelParameters(
        SetChannelParameters(ps, BaseChannel(cmd.device_id), VectorX(cmd)),
        BaseChannel(cmd.device_id) + 1, VectorY(cmd))
DeviceVectorActive(act, cmd) ==
    [act EXCEPT ![BaseChannel(cmd.device_id)] = TRUE,
                ![BaseChannel(cmd.device_id) + 1] = TRUE]

\* ------------------------------------------------------------ inputs

\* update_parameters batches of the model: a valid one, one whose second entry
\* names channel 4, one with out-of-range frequency and amplitude, and one with a
\* negative channel id
Batches ==
    { <<[channel_id |-> 0, frequency |-> 60, amplitude |-> 500],
        [channel_id |-> 1, frequency |-> 80, amplitude |-> 500]>>,
      <<[channel_id |-> 2, amplitude |-> 500], [channel_id |-> 4, amplitude |-> 500]>>,
      <<[channel_id |-> 3, frequency |-> 200, amplitude |-> 1500]>>,
      <<[channel_id |-> -1, amplitude |-> 500]>> }

\* vector-force commands of the model
VectorCommands ==
    { [device_id |-> 1, angle |-> 45, magnitude |-> 800, frequency |-> 60],
      [device_id |-> 3, angle |-> 0, magnitude |-> 500, frequency |-> 60] }

ChannelId(e) == IF Has(e, "channel_id") THEN e.channel_id ELSE 0
FrequencyOk(f) == MIN_FREQUENCY <= f /\ f <= MAX_FREQUENCY
AmplitudeOk(a) == MIN_AMPLITUDE <= a /\ a <= MAX_AMPLITUDE
\* an entry the specification calls invalid
InvalidEntry(e) ==
    \/ ChannelId(e) \notin Channels
    \/ Has(e, "frequency") /\ ~FrequencyOk(e.frequency)
    \/ Has(e, "amplitude") /\ ~AmplitudeOk(e.amplitude)
InvalidBatch(b) == \E i \in 1 .. Len(b) : InvalidEntry(b[i])

\* ------------------------------------------------------------ controller.py

Threads == Writers \cup {AudioThread, "loop"}
IdleOp == [i |-> 0]
ChannelState == <<params, is_active>>

\* a with block that does not release the lock when it is left
WithExitHeld(holder) == holder

\* `with self._lock`: leaving the block, normally or by an exception, releases the lock
WithExit(holder) == "free"

\* update_parameters: `with self._lock` entered
UpdBegin(w, b) ==
    /\ pc[w] = "idle" /\ lock = "free"
    /\ lock' = w
    /\ pc' = [pc EXCEPT ![w] = "upd"]
    /\ op' = [op EXCEPT ![w] = [i |-> 1, batch |-> b, pre |-> ChannelState]]
    /\ UNCHANGED <<chanVars, is_streaming, stop_flag, histVars, renderVars, animVars, hostVars, cfgVars>>

\* update_parameters: one iteration of the loop over params["channels"].  The
\* entry is applied by set_channel_parameters; with amplitude > 0 the channel
\* self.device.channels[ch_id] is activated, which raises IndexError for an id
\* outside -4..3, and the exception leaves the with block (lock released).
UpdEntry(w) ==
    /\ pc[w] = "upd" /\ op[w].i <= Len(op[w].batch)
    /\ LET e == op[w].batch[op[w].i]
           ch_id == ChannelId(e)
           ps == SetChannelParameters(params, ch_id, e)
           activates == Has(e, "amplitude") /\ e.amplitude > 0
       IN /\ params' = ps
          /\ IF activates /\ ~IndexOk(ch_id)
             THEN /\ is_active' = is_active
                  /\ lock' = WithExit(w)
                  /\ pc' = [pc EXCEPT ![w] = "idle"]
                  /\ op' = [op EXCEPT ![w] = IdleOp]
                  /\ last_update' = [invalid |-> InvalidBatch(op[w].batch),
                                     raised |-> TRUE,
                                     changed |-> <<ps, is_active>> # op[w].pre]
             ELSE /\ is_active' = IF activates
                                  THEN [is_active EXCEPT ![ListIndex(ch_id)] = TRUE]
                                  ELSE is_active
                  /\ op' = [op EXCEPT ![w].i = @ + 1]
                  /\ UNCHANGED <<lock, pc, last_update>>
    /\ UNCHANGED <<cumulative_time, is_streaming, stop_flag, committed, observed_torn, renderVars, animVars, hostVars, cfgVars>>

\* update_parameters: the loop is over, the with block releases the lock
UpdReturn(w) ==
    /\ pc[w] = "upd" /\ op[w].i > Len(op[w].batch)
    /\ lock' = WithExit(w)
    /\ pc' = [pc EXCEPT ![w] = "idle"]
    /\ op' = [op EXCEPT ![w] = IdleOp]
    /\ committed' = ChannelState
    /\ last_update' = [invalid |-> InvalidBatch(op[w].batch),
                       raised |-> FALSE,
                       changed |-> ChannelState # op[w].pre]
    /\ UNCHANGED <<chanVars, is_streaming, stop_flag, observed_torn, renderVars, animVars, hostVars, cfgVars>>

\* get_current_parameters: the snapshot is taken under the lock
GetCurrentParameters(w) ==
    /\ pc[w] = "idle" /\ lock = "free"
    /\ observed_torn' = (observed_torn \/ ChannelState # committed)
    /\ UNCHANGED <<chanVars, ctlVars, committed, last_update, renderVars, animVars, hostVars, cfgVars>>

\* HapticController.set_vector_force: device.set_vector_force under the lock; an
\* invalid device id raises before anything is written
SetVectorForce(w, cmd) ==
    /\ pc[w] = "idle" /\ lock = "free"
    /\ IF ValidDevice(cmd.device_id)
       THEN /\ params' = DeviceVectorParams(params, cmd)
            /\ is_active' = DeviceVectorActive(is_active, cmd)
       ELSE UNCHANGED <<params, is_active>>
    /\ committed' = IF ValidDevice(cmd.device_id) THEN <<params', is_active'>> ELSE committed
    /\ UNCHANGED <<cumulative_time, ctlVars, observed_torn, last_update, renderVars, animVars, hostVars, cfgVars>>

\* what the host does when start_streaming asks for a stream: the device is not
\* available (device_info), sd.OutputStream raises in both attempts, the stream is
\* created but stream.start() raises in both attempts, or the stream starts
StreamOutcomes == {"ok", "unavailable", "rejected", "start_failed"}

\* start_streaming: returns at once when streaming; else clears the stop flag, then
\* raises when the device is unavailable or the host rejects the stream, and sets
\* is_streaming only when the stream has started
StartStreaming(outcome) ==
    /\ IF is_streaming
       THEN UNCHANGED <<is_streaming, stop_flag, stream>>
       ELSE /\ stop_flag' = FALSE
            /\ is_streaming' = (outcome = "ok")
            /\ stream' = CASE outcome = "ok" -> "open"
                            [] outcome = "start_failed" -> "unstarted"
                            [] OTHER -> stream
    /\ UNCHANGED <<chanVars, lock, pc, op, histVars, renderVars, animVars,
                   outdata, callback_times, callbacks, latency_seen, cfgVars>>

\* stop_streaming: clears is_streaming, sets the stop flag, closes the stream if any
StopStreaming ==
    /\ is_streaming' = FALSE
    /\ stop_flag' = TRUE
    /\ stream' = "None"
    /\ UNCHANGED <<chanVars, lock, pc, op, histVars, renderVars, animVars,
                   outdata, callback_times, callbacks, latency_seen, cfgVars>>

\* get_latency_ms: the mean of the ring as it is now, read without the lock (the
\* theoretical block duration when the ring is empty)
GetLatencyMs ==
    /\ latency_seen' = Len(callback_times)
    /\ UNCHANGED <<chanVars, ctlVars, histVars, renderVars, animVars,
                   stream, outdata, callback_times, callbacks, cfgVars>>

\* waveform.resonator raises ValueError for a natural frequency or damping ratio that
\* is not positive (the sampling frequency of a channel is always positive)
ResonatorRejects(cfg) == cfg.f_n <= 0 \/ cfg.zeta <= 0

\* HapticChannel.get_next_chunk raises: the channel is not silent, so the sawtooth is
\* generated and the cumulative time advanced, and then the resonator is applied
RenderRaises(c) ==
    /\ ~Silent(params[c], is_active[c])
    /\ resonator_enabled[c]
    /\ ResonatorRejects(resonator_cfg[c])

\* a stopped callback that records a duration all the same
StoppedTimesRecorded(times) == Append(times, 0)

\* _audio_callback with the stop flag set returns before the latency measurement
StoppedTimes(times) == times

\* outdata.fill(0)
FillZero(buf) == "zeros"

\* _audio_callback with the stop flag set: zero block, return
CbStopped ==
    /\ pc[AudioThread] = "idle" /\ stop_flag
    /\ outdata' = FillZero(outdata)
    /\ callback_times' = StoppedTimes(callback_times)
    /\ UNCHANGED <<chanVars, ctlVars, histVars, renderVars, animVars,
                   stream, callbacks, latency_seen, cfgVars>>

\* _audio_callback: the host hands in a buffer; the stop flag is clear, the callback
\* goes on to the lock
CbBegin ==
    /\ pc[AudioThread] = "idle" /\ ~stop_flag
    /\ \A c \in Channels : cumulative_time[c] + Frames <= MaxTime
    /\ callbacks < MaxCallbacks
    /\ pc' = [pc EXCEPT ![AudioThread] = "wait"]
    /\ outdata' = "stale"
    /\ UNCHANGED <<chanVars, lock, is_streaming, stop_flag, op, histVars, renderVars,
                   animVars, stream, callback_times, callbacks, latency_seen, cfgVars>>

\* _audio_callback: `with self._lock` entered, get_output_block starts
CbAcquire ==
    /\ pc[AudioThread] = "wait" /\ lock = "free"
    /\ lock' = AudioThread
    /\ pc' = [pc EXCEPT ![AudioThread] = "render"]
    /\ op' = [op EXCEPT ![AudioThread] = [i |-> 0]]
    /\ observed_torn' = (observed_torn \/ ChannelState # committed)
    /\ UNCHANGED <<chanVars, is_streaming, stop_flag, committed, last_update, renderVars, animVars, hostVars, cfgVars>>

\* HapticDevice.get_output_block: channel.get_next_chunk(block_size) of one channel.
\* When the channel raises, the exception leaves the `with` block, which releases the
\* lock, and is caught by _audio_callback: outdata.fill(0), then the latency measurement
CbRenderChannel ==
    /\ pc[AudioThread] = "render" /\ op[AudioThread].i < 4
    /\ LET c == op[AudioThread].i
       IN /\ cumulative_time' =
                 [cumulative_time EXCEPT
                     ![c] = NextTime(params[c], is_active[c], cumulative_time[c], Frames)]
          /\ IF RenderRaises(c)
             THEN /\ lock' = WithExit(AudioThread)
                  /\ pc' = [pc EXCEPT ![AudioThread] = "measure"]
                  /\ op' = [op EXCEPT ![AudioThread] = IdleOp]
                  /\ outdata' = FillZero(outdata)
             ELSE /\ op' = [op EXCEPT ![AudioThread].i = @ + 1]
                  /\ UNCHANGED <<lock, pc, outdata>>
    /\ UNCHANGED <<params, is_active, is_streaming, stop_flag, histVars, renderVars, animVars,
                   stream, callback_times, callbacks, latency_seen, cfgVars>>

\* _audio_callback: the block is complete, the lock is released and the block is
\* copied to the host's buffer (available_channels is 2 or 4)
CbRelease ==
    /\ pc[AudioThread] = "render" /\ op[AudioThread].i = 4
    /\ lock' = WithExit(AudioThread)
    /\ pc' = [pc EXCEPT ![AudioThread] = "measure"]
    /\ op' = [op EXCEPT ![AudioThread] = IdleOp]
    /\ outdata' = "wave"
    /\ UNCHANGED <<chanVars, is_streaming, stop_flag, histVars, renderVars, animVars,
                   stream, callback_times, callbacks, latency_seen, cfgVars>>

\* _audio_callback: self._callback_times.append(callback_time); the duration of the
\* k-th recording callback is written k
CbMeasure ==
    /\ pc[AudioThread] = "measure"
    /\ callback_times' = Append(callback_times, callbacks + 1)
    /\ callbacks' = callbacks + 1
    /\ pc' = [pc EXCEPT ![AudioThread] = "trim"]
    /\ UNCHANGED <<chanVars, lock, is_streaming, stop_flag, op, histVars, renderVars,
                   animVars, stream, outdata, latency_seen, cfgVars>>

\* _audio_callback: if len(self._callback_times) > self._max_latency_samples: pop(0)
CbTrim ==
    /\ pc[AudioThread] = "trim"
    /\ callback_times' = IF Len(callback_times) > MaxLatencySamples
                         THEN Tail(callback_times) ELSE callback_times
    /\ pc' = [pc EXCEPT ![AudioThread] = "idle"]
    /\ UNCHANGED <<chanVars, lock, is_streaming, stop_flag, op, histVars, renderVars,
                   animVars, stream, outdata, callbacks, latency_seen, cfgVars>>

InitChannels ==
    /\ params = [c \in Channels |-> InitialParams]
    /\ is_active = [c \in Channels |-> FALSE]
    /\ cumulative_time = [c \in Channels |-> 0]

InitController ==
    /\ lock = "free"
    /\ is_streaming = FALSE
    /\ stop_flag = FALSE
    /\ pc = [t \in Threads |-> "idle"]
    /\ op = [t \in Threads |-> IdleOp]
    /\ committed = ChannelState
    /\ observed_torn = FALSE
    /\ last_update = [invalid |-> FALSE, raised |-> FALSE, changed |-> FALSE]

\* ------------------------------------------------------------ Spec
\* The controller under threads: writers calling update_parameters,
\* get_current_parameters and set_vector_force, and the host's audio thread
\* calling _audio_callback (the stop flag is clear throughout).

vars == <<chanVars, ctlVars, histVars, renderVars, animVars, hostVars, cfgVars>>

\* HapticChannel.__init__: resonator on, nothing rendered yet
NoRun == [start |-> 0, n |-> 0, blocks |-> 0, wave |-> <<>>]
InitRender ==
    /\ resonator_enabled = [c \in Channels |-> TRUE]
    /\ out = <<>>
    /\ last_render = [n |-> 0, before |-> 0, after |-> 0, silent |-> FALSE]
    /\ run = NoRun

\* animation tasks created in one behaviour
MaxTasks == 2
\* the longest requested duration, in frames
MaxFrames == 2

Actuators == {1, 2}
TaskIds == 1 .. MaxTasks
Requests == {"r1", "r2"}

\* an unused task id, and a request that is not inside a call
NoTask == [state |-> "unused", device |-> 0, preset |-> None, duration |-> 0,
           frame |-> 0, must_cancel |-> FALSE, commanded |-> FALSE]
IdleCall == [pc |-> "idle", kind |-> None, device |-> 0, preset |-> None,
             duration |-> 0, task |-> 0]

\* YURAGIAnimator.__init__: no animation, no call in progress, no command issued
NoCommand == [magnitude |-> 0, frequency |-> 0, by |-> 0]
InitAnimator ==
    /\ active_animations = [d \in Actuators |-> 0]
    /\ animation_configs = [d \in Actuators |-> None]
    /\ task = [t \in TaskIds |-> NoTask]
    /\ call = [k \in Requests |-> IdleCall]
    /\ last_cmd = [d \in Actuators |-> NoCommand]

\* HapticController.__init__: no stream, no callback yet
InitHost ==
    /\ stream = "None"
    /\ outdata = "stale"
    /\ callback_times = <<>>
    /\ callbacks = 0
    /\ latency_seen = 0

\* HapticDevice.__init__: continuous mode; HapticChannel.__init__: the default resonator
InitConfig ==
    /\ discrete_mode_enabled = FALSE
    /\ resonator_cfg = [c \in Channels |-> [f_n |-> resonator_f_n, zeta |-> resonator_zeta]]
    /\ raised = None
    /\ noise = [c \in Channels |-> [enabled |-> FALSE, level |-> noise_level]]

Init ==
    /\ InitChannels /\ InitController /\ InitRender /\ InitAnimator /\ InitHost
    /\ InitConfig

\* HapticDevice.get_output_block, effect on the cumulative times of a block of n
\* samples: channel c renders unless an earlier channel has raised
BlockTimes(tau, n) ==
    [c \in Channels |->
        IF \E k \in Channels : k < c /\ RenderRaises(k)
        THEN tau[c]
        ELSE NextTime(params[c], is_active[c], tau[c], n)]

WriterStep ==
    \E w \in Writers :
        \/ \E b \in Batches : UpdBegin(w, b)
        \/ UpdEntry(w)
        \/ UpdReturn(w)
        \/ GetCurrentParameters(w)
        \/ \E cmd \in VectorCommands : SetVectorForce(w, cmd)

Rendering == CbBegin \/ CbAcquire \/ CbRenderChannel \/ CbRelease \/ CbMeasure \/ CbTrim

Next == WriterStep \/ Rendering

Spec == Init /\ [][Next]_vars

\* ------------------------------------------------------------ claims under Spec

\* C1: every update_parameters batch takes effect atomically: no block rendered by
\* the audio callback and no snapshot of get_current_parameters sees the channels
\* in a state in which some but not all entries of a batch are applied.
C1_BatchAtomic == ~observed_torn

\* C4: an update_parameters call whose batch has an invalid entry (channel id
\* outside 0..3, frequency or amplitude out of bounds) fails, and no channel's
\* parameters or active flag differ from what they were before the call.
C4_InvalidBatchRejected ==
    last_update.invalid => (last_update.raised /\ ~last_update.changed)

\* C7: in every reachable state every channel's amplitude lies in [0, 1] and its
\* frequency in [MIN_FREQUENCY, MAX_FREQUENCY].
C7_ParamsInRange ==
    \A c \in Channels :
        AmplitudeOk(params[c].amplitude) /\ FrequencyOk(params[c].frequency)

\* ------------------------------------------------------------ main.py
\* The request handlers run one at a time on the event-loop thread "loop"; the
\* audio thread runs between any two of their steps.

LoopThread == "loop"

\* VectorForceRequest: the requests that pass validation
\* (frequency >= max(40.0, settings.min_frequency), settings.min_frequency = 0.0)
VectorRequestOk(cmd) ==
    /\ cmd.device_id \in {1, 2}
    /\ 0 <= cmd.angle /\ cmd.angle <= 360
    /\ 0 <= cmd.magnitude /\ cmd.magnitude <= 1000
    /\ 40 <= cmd.frequency /\ cmd.frequency <= MAX_FREQUENCY
VectorRequests == {cmd \in VectorCommands : VectorRequestOk(cmd)}

\* POST /api/vector-force: the handler calls controller.device.set_vector_force
PostVectorForce(cmd) ==
    /\ pc[LoopThread] = "idle"
    /\ pc' = [pc EXCEPT ![LoopThread] = "vf_x"]
    /\ op' = [op EXCEPT ![LoopThread] = [i |-> 0, cmd |-> cmd]]
    /\ UNCHANGED <<chanVars, lock, is_streaming, stop_flag, histVars, renderVars, animVars, hostVars, cfgVars>>

\* HapticDevice.set_vector_force: set_channel_parameters(base_channel, ...)
VfSetX ==
    /\ pc[LoopThread] = "vf_x"
    /\ params' = SetChannelParameters(params, BaseChannel(op[LoopThread].cmd.device_id),
                                      VectorX(op[LoopThread].cmd))
    /\ pc' = [pc EXCEPT ![LoopThread] = "vf_y"]
    /\ UNCHANGED <<is_active, cumulative_time, lock, is_streaming, stop_flag, op, histVars, renderVars, animVars, hostVars, cfgVars>>

\* HapticDevice.set_vector_force: set_channel_parameters(base_channel + 1, ...)
VfSetY ==
    /\ pc[LoopThread] = "vf_y"
    /\ params' = SetChannelParameters(params, BaseChannel(op[LoopThread].cmd.device_id) + 1,
                                      VectorY(op[LoopThread].cmd))
    /\ pc' = [pc EXCEPT ![LoopThread] = "vf_act_x"]
    /\ UNCHANGED <<is_active, cumulative_time, lock, is_streaming, stop_flag, op, histVars, renderVars, animVars, hostVars, cfgVars>>

\* HapticDevice.set_vector_force: self.channels[base_channel].activate()
VfActivateX ==
    /\ pc[LoopThread] = "vf_act_x"
    /\ is_active' = [is_active EXCEPT ![BaseChannel(op[LoopThread].cmd.device_id)] = TRUE]
    /\ pc' = [pc EXCEPT ![LoopThread] = "vf_act_y"]
    /\ UNCHANGED <<params, cumulative_time, lock, is_streaming, stop_flag, op, histVars, renderVars, animVars, hostVars, cfgVars>>

\* HapticDevice.set_vector_force: self.channels[base_channel + 1].activate()
VfActivateY ==
    /\ pc[LoopThread] = "vf_act_y"
    /\ is_active' =
           [is_active EXCEPT ![BaseChannel(op[LoopThread].cmd.device_id) + 1] = TRUE]
    /\ pc' = [pc EXCEPT ![LoopThread] = "vf_params"]
    /\ UNCHANGED <<params, cumulative_time, lock, is_streaming, stop_flag, op, histVars, renderVars, animVars, hostVars, cfgVars>>

\* POST /api/vector-force: controller.get_current_parameters() for the broadcast
VfSnapshot ==
    /\ pc[LoopThread] = "vf_params" /\ lock = "free"
    /\ pc' = [pc EXCEPT ![LoopThread] = "idle"]
    /\ op' = [op EXCEPT ![LoopThread] = IdleOp]
    /\ UNCHANGED <<chanVars, lock, is_streaming, stop_flag, histVars, renderVars, animVars, hostVars, cfgVars>>

\* POST /api/waveform: the handler renders the four live channels
PostWaveform ==
    /\ pc[LoopThread] = "idle"
    /\ \A c \in Channels : cumulative_time[c] + SnapshotSamples <= MaxTime
    /\ pc' = [pc EXCEPT ![LoopThread] = "waveform"]
    /\ op' = [op EXCEPT ![LoopThread] = [i |-> 0]]
    /\ UNCHANGED <<chanVars, lock, is_streaming, stop_flag, histVars, renderVars, animVars, hostVars, cfgVars>>

\* background_waveform_streamer: one round of the loop; it renders only while
\* streaming and with a WebSocket client connected
StreamerTick(connected) ==
    /\ pc[LoopThread] = "idle"
    /\ is_streaming /\ connected
    /\ \A c \in Channels : cumulative_time[c] + SnapshotSamples <= MaxTime
    /\ pc' = [pc EXCEPT ![LoopThread] = "streamer"]
    /\ op' = [op EXCEPT ![LoopThread] = [i |-> 0]]
    /\ UNCHANGED <<chanVars, lock, is_streaming, stop_flag, histVars, renderVars, animVars, hostVars, cfgVars>>

\* get_waveform_data and background_waveform_streamer:
\* controller.device.channels[ch_id].get_next_chunk(num_samples), without the lock
LoopRenderChannel ==
    /\ pc[LoopThread] \in {"waveform", "streamer"} /\ op[LoopThread].i < 4
    /\ LET c == op[LoopThread].i
       IN cumulative_time' =
              [cumulative_time EXCEPT
                  ![c] = NextTime(params[c], is_active[c], cumulative_time[c],
                                  SnapshotSamples)]
    /\ op' = [op EXCEPT ![LoopThread].i = @ + 1]
    /\ UNCHANGED <<params, is_active, lock, is_streaming, stop_flag, pc, histVars, renderVars, animVars, hostVars, cfgVars>>

\* get_waveform_data returns; the streamer broadcasts and sleeps
LoopRenderDone ==
    /\ pc[LoopThread] \in {"waveform", "streamer"} /\ op[LoopThread].i = 4
    /\ pc' = [pc EXCEPT ![LoopThread] = "idle"]
    /\ op' = [op EXCEPT ![LoopThread] = IdleOp]
    /\ UNCHANGED <<chanVars, lock, is_streaming, stop_flag, histVars, renderVars, animVars, hostVars, cfgVars>>

\* POST /api/streaming/start: start_streaming unless already streaming
PostStreamingStart(outcome) ==
    pc[LoopThread] = "idle" /\ ~is_streaming /\ StartStreaming(outcome)

\* POST /api/streaming/stop: stop_streaming when streaming
PostStreamingStop == pc[LoopThread] = "idle" /\ is_streaming /\ StopStreaming

\* ------------------------------------------------------------ SpecApi
\* The request handlers on the event-loop thread against the audio thread.

Handlers ==
    \/ \E cmd \in VectorRequests : PostVectorForce(cmd)
    \/ VfSetX \/ VfSetY \/ VfActivateX \/ VfActivateY \/ VfSnapshot
    \/ PostWaveform
    \/ \E connected \in BOOLEAN : StreamerTick(connected)
    \/ LoopRenderChannel \/ LoopRenderDone
    \/ \E outcome \in StreamOutcomes : PostStreamingStart(outcome)
    \/ PostStreamingStop

NextApi == Handlers \/ CbStopped \/ Rendering

SpecApi == Init /\ [][NextApi]_vars

\* ------------------------------------------------------------ claims under SpecApi

ChannelWrite == params' # params \/ is_active' # is_active

\* C2: every control-plane write to channel state is made while the writer holds
\* the controller's mutex, so that no channel is written while an audio callback
\* is inside its block render.
C2_WritesHoldLock == [][ChannelWrite => lock = LoopThread]_vars

\* a channel is written (the X channel already, the Y channel not yet) while the
\* audio callback holds the mutex and renders
C2_WriteDuringRender ==
    /\ pc[AudioThread] = "render" /\ lock = AudioThread
    /\ pc[LoopThread] = "vf_y"

\* C3: a channel's cumulative time changes only in a step of the audio callback's
\* block render, made while the callback holds the mutex.
C3_OnlyCallbackRenders ==
    [][cumulative_time' # cumulative_time
          => (lock = AudioThread /\ pc[AudioThread] = "render"
              /\ op'[AudioThread] # op[AudioThread])]_vars

\* a control-plane render of a live channel runs while the callback renders
C3_RenderDuringCallback ==
    /\ pc[AudioThread] = "render" /\ lock = AudioThread
    /\ pc[LoopThread] \in {"waveform", "streamer"}
    /\ \E c \in Channels : c < op[LoopThread].i /\ cumulative_time[c] > 0

\* ------------------------------------------------------------ rendering
\* The waveform of one channel, computed as channel.py and waveform.py compute it.

\* samples of the largest block of the rendering model
MaxBlock == 3
\* the rendering model renders while the channel's cumulative time is below this
MaxRenderTime == 6

\* 2 * pi in hundredths, and the scale of the filter coefficients (w_n * dt is kept
\* in hundredths, the coefficients in ten-thousandths)
TwoPi100 == 628
CoefScale == 100

Zeros(n) == [i \in 1 .. n |-> 0]

\* one sample of the sawtooth of get_next_chunk: k is the index in the block, tau the
\* cumulative time in samples;
\*   amplitude * (2 * ((frequency * t + phase / 360) % 1.0) - 1),  t = (k + tau) / sr
Sawtooth(p, tau, k) ==
    LET S     == sample_rate * 360
        frac  == (p.frequency * (k + tau) * 360 + p.phase * sample_rate) % S
        saw   == (2 * frac - S) \div (S \div 1000)
        wave  == (p.amplitude * saw) \div 1000
    IN  IF p.polarity THEN wave ELSE -wave

\* waveform.resonator: the coefficients of the bilinear transform
OmegaDt(f_n) == (TwoPi100 * f_n) \div sample_rate
FilterA0(f_n, zeta) ==
    4 * CoefScale * CoefScale + 4 * zeta * OmegaDt(f_n) + OmegaDt(f_n) * OmegaDt(f_n)
FilterB0(f_n) == OmegaDt(f_n) * OmegaDt(f_n)
FilterA1(f_n) == 2 * (OmegaDt(f_n) * OmegaDt(f_n) - 4 * CoefScale * CoefScale)
FilterA2(f_n, zeta) ==
    4 * CoefScale * CoefScale - 4 * zeta * OmegaDt(f_n) + OmegaDt(f_n) * OmegaDt(f_n)

\* waveform.resonator: y = zeros_like(u); for n in range(2, len(u)): y[n] = ...
\* (y holds the outputs computed so far; the first two stay 0 in every call)
RECURSIVE FilterLoop(_, _, _, _)
FilterLoop(u, y, f_n, zeta) ==
    IF Len(y) >= Len(u) THEN y
    ELSE LET n == Len(y) + 1
             v == IF n <= 2 THEN 0
                  ELSE (FilterB0(f_n) * u[n] + 2 * FilterB0(f_n) * u[n - 1]
                        + FilterB0(f_n) * u[n - 2]
                        - FilterA1(f_n) * y[n - 1] - FilterA2(f_n, zeta) * y[n - 2])
                       \div FilterA0(f_n, zeta)
         IN  FilterLoop(u, Append(y, v), f_n, zeta)

resonator(u, f_n, zeta) == FilterLoop(u, <<>>, f_n, zeta)

\* HapticChannel.get_next_chunk: the block of n samples returned for a channel with
\* parameters p at cumulative time tau (noise is off)
GetNextChunk(p, active, res, cfg, tau, n) ==
    IF Silent(p, active) THEN Zeros(n)
    ELSE LET wave == [k \in 1 .. n |-> Sawtooth(p, tau, k - 1)]
         IN  IF res THEN resonator(wave, cfg.f_n, cfg.zeta) ELSE wave

\* the channel the rendering model drives, and the parameter sets given to it
Rendered == 0
\* arguments of enable_resonator: the defaults, a natural frequency of 0 and a damping
\* ratio of 0
ResonatorSettings ==
    { [f_n |-> resonator_f_n, zeta |-> resonator_zeta],
      [f_n |-> 0, zeta |-> resonator_zeta],
      [f_n |-> resonator_f_n, zeta |-> 0] }
ParamSets ==
    { [amplitude |-> 500],
      [frequency |-> 80, amplitude |-> 1000],
      [amplitude |-> 0],
      [polarity |-> FALSE] }

\* a set_parameters that restarts the waveform when the frequency is given
ChSetParametersRestarts(e) ==
    /\ params' = [params EXCEPT ![Rendered] = SetParameters(params[Rendered], e)]
    /\ cumulative_time' = [cumulative_time EXCEPT
                               ![Rendered] = IF Has(e, "frequency") THEN 0 ELSE @]
    /\ params' # params
    /\ run' = NoRun
    /\ UNCHANGED <<animVars, hostVars, is_active, ctlVars, histVars,
                   resonator_enabled, out, last_render, cfgVars>>

\* HapticChannel.set_parameters
ChSetParameters(e) ==
    /\ params' = [params EXCEPT ![Rendered] = SetParameters(params[Rendered], e)]
    /\ params' # params
    /\ run' = NoRun
    /\ UNCHANGED <<animVars, hostVars, is_active, cumulative_time, ctlVars, histVars,
                   resonator_enabled, out, last_render, cfgVars>>

\* HapticChannel.activate
ChActivate ==
    /\ ~is_active[Rendered]
    /\ is_active' = [is_active EXCEPT ![Rendered] = TRUE]
    /\ run' = NoRun
    /\ UNCHANGED <<animVars, hostVars, params, cumulative_time, ctlVars, histVars,
                   resonator_enabled, out, last_render, cfgVars>>

\* HapticChannel.deactivate
ChDeactivate ==
    /\ is_active[Rendered]
    /\ is_active' = [is_active EXCEPT ![Rendered] = FALSE]
    /\ run' = NoRun
    /\ UNCHANGED <<animVars, hostVars, params, cumulative_time, ctlVars, histVars,
                   resonator_enabled, out, last_render, cfgVars>>

\* HapticChannel.enable_resonator(f_n, zeta): the settings are stored as given
ChEnableResonator(cfg) ==
    /\ resonator_enabled' = [resonator_enabled EXCEPT ![Rendered] = TRUE]
    /\ resonator_cfg' = [resonator_cfg EXCEPT ![Rendered] = cfg]
    /\ raised' = None
    /\ run' = NoRun
    /\ UNCHANGED <<animVars, hostVars, chanVars, ctlVars, histVars, out, last_render,
                   discrete_mode_enabled, noise>>

\* HapticChannel.disable_resonator
ChDisableResonator ==
    /\ resonator_enabled[Rendered]
    /\ resonator_enabled' = [resonator_enabled EXCEPT ![Rendered] = FALSE]
    /\ raised' = None
    /\ run' = NoRun
    /\ UNCHANGED <<animVars, hostVars, chanVars, ctlVars, histVars, out, last_render,
                   discrete_mode_enabled, resonator_cfg, noise>>

\* HapticChannel.get_next_chunk(n), the whole call: the block and the cumulative time.
\* When the resonator rejects its settings the call raises ValueError after the
\* cumulative time has been advanced, and no block is returned.
ChGetNextChunk(n) ==
    LET p      == params[Rendered]
        active == is_active[Rendered]
        tau    == cumulative_time[Rendered]
        block  == GetNextChunk(p, active, resonator_enabled[Rendered],
                               resonator_cfg[Rendered], tau, n)
    IN  /\ tau + n <= MaxRenderTime
        /\ cumulative_time' =
               [cumulative_time EXCEPT ![Rendered] = NextTime(p, active, tau, n)]
        /\ IF RenderRaises(Rendered)
           THEN /\ raised' = "ValueError"
                /\ run' = NoRun
                /\ UNCHANGED <<out, last_render>>
           ELSE /\ raised' = None
                /\ out' = block
                /\ last_render' = [n |-> n, before |-> tau, silent |-> Silent(p, active),
                                   after |-> cumulative_time'[Rendered]]
                /\ run' = IF Silent(p, active) THEN NoRun
                          ELSE IF run.blocks > 0 /\ run.n = n
                               THEN [run EXCEPT !.blocks = @ + 1, !.wave = @ \o block]
                               ELSE [start |-> tau, n |-> n, blocks |-> 1, wave |-> block]
        /\ UNCHANGED <<animVars, hostVars, params, is_active, ctlVars, histVars,
                       resonator_enabled, discrete_mode_enabled, resonator_cfg, noise>>

NextRender ==
    \/ \E e \in ParamSets : ChSetParameters(e)
    \/ ChActivate
    \/ ChDeactivate
    \/ \E cfg \in ResonatorSettings : ChEnableResonator(cfg)
    \/ ChDisableResonator
    \/ \E n \in 1 .. MaxBlock : ChGetNextChunk(n)

SpecRender == Init /\ [][NextRender]_vars

\* C5: every render of n samples moves the channel's cumulative time forward by exactly
\* n samples (n / sample_rate seconds), also when the channel is inactive or its
\* amplitude is 0, in which case the block is n zeros; the time never goes back.
C5_RenderAdvancesTime ==
    last_render.n > 0 =>
        /\ last_render.after = last_render.before + last_render.n
        /\ Len(out) = last_render.n
        /\ last_render.silent => out = Zeros(last_render.n)

\* C5: a block has been rendered by a channel that is inactive or has amplitude 0
C5_SilentRender ==
    /\ last_render.n > 0
    /\ last_render.silent
    /\ out = Zeros(last_render.n)

\* C6: for an active channel with amplitude > 0, unchanged parameters and the resonator
\* enabled, k consecutive blocks of n samples are, sample for sample, the one block of
\* k * n samples rendered from the same starting time.
C6_ChunkingInvariant ==
    (run.blocks >= 1 /\ resonator_enabled[Rendered]) =>
        run.wave = GetNextChunk(params[Rendered], TRUE, TRUE, resonator_cfg[Rendered],
                                run.start, run.n * run.blocks)

\* C6: two blocks of three samples rendered through the resonator
C6_TwoFilteredBlocks ==
    /\ run.blocks = 2
    /\ run.n = 3
    /\ resonator_enabled[Rendered]

\* ------------------------------------------------------------ yuragi_animator.py
\* The coroutines of YURAGIAnimator on one asyncio event loop.  A step of the model is
\* what one coroutine runs between two suspension points; `await task` suspends only
\* when the task is not done yet, and awaiting stop_animation from start_animation is
\* a plain call.  Time is counted in frames: a task started with duration f issues f
\* commands, one per frame, and completes at its next wake-up.

\* YURAGIAnimator._initialize_presets: magnitude (thousandths) and frequency of the
\* presets used by the model; any other name falls back to "default"
Presets == {"default", "slow"}
\* the start_animation requests of the model: actuator, preset, duration in frames
StartRequests ==
    { [device |-> 1, preset |-> "slow", duration |-> MaxFrames],
      [device |-> 2, preset |-> "default", duration |-> 1] }
PresetMagnitude(p) == IF p = "slow" THEN 800 ELSE 700
PresetFrequency(p) == IF p = "slow" THEN 25 ELSE 60

\* a task that is done: its coroutine frame (config, duration) is gone
Finished(tk, how) ==
    [state |-> how, device |-> tk.device, preset |-> None, duration |-> 0,
     frame |-> 0, must_cancel |-> FALSE, commanded |-> tk.commanded]

\* asyncio.Task: not done / done
Alive(tk) == tk.state = "running"
Done(tk) == tk.state \in {"completed", "cancelled"}

\* the animator's state as one value, for the straight-line parts of the coroutines
Animator == [map |-> active_animations, cfg |-> animation_configs,
             task |-> task, cmd |-> last_cmd]

\* stop_animation: the zero force command given to update_callback
ZeroCommand == [magnitude |-> 0, frequency |-> 60, by |-> 0]

\* _animate_device: the command of one frame.  The envelope factor
\* 1 + sin(..) * envelope_depth stays positive, so an animation command never has
\* magnitude 0; the model issues the preset's magnitude.
FrameCommand(t, p) ==
    [magnitude |-> PresetMagnitude(p), frequency |-> PresetFrequency(p), by |-> t]

\* task.cancel(): a request that a task which is not done raises CancelledError at its
\* next step; nothing for a done task
Cancel(tasks, t) ==
    IF Alive(tasks[t]) THEN [tasks EXCEPT ![t].must_cancel = TRUE] ELSE tasks

\* stop_animation after `await task`: del self._active_animations[device_id] raises
\* KeyError when the entry is gone
StopRaises(st, d) == st.map[d] = 0

\* stop_animation after `await task`, without the zero force command
StopTailSilent(st, d) ==
    [st EXCEPT !.map[d] = 0, !.cfg[d] = None]

\* stop_animation after `await task`: delete the entries, issue the zero force command
StopTail(st, d) ==
    [st EXCEPT !.map[d] = 0, !.cfg[d] = None, !.cmd[d] = ZeroCommand]

\* start_animation after the stop: record the config, create the task, record it
UnusedIds(tasks) == {t \in TaskIds : tasks[t].state = "unused"}
NewId(tasks) == CHOOSE t \in UnusedIds(tasks) : \A u \in UnusedIds(tasks) : t <= u
SpawnTail(st, d, p, f) ==
    LET t == NewId(st.task)
    IN  [st EXCEPT !.cfg[d] = p,
                   !.task[t] = [state |-> "running", device |-> d, preset |-> p,
                                duration |-> f, frame |-> 0, must_cancel |-> FALSE,
                                commanded |-> FALSE],
                   !.map[d] = t]

\* what a call does once the awaited task is done
CallTail(st, kind, d, p, f) ==
    IF kind = "start" THEN SpawnTail(StopTail(st, d), d, p, f) ELSE StopTail(st, d)

SetAnimator(st) ==
    /\ active_animations' = st.map
    /\ animation_configs' = st.cfg
    /\ task' = st.task
    /\ last_cmd' = st.cmd

\* a call that has returned: the request is idle again; after a stop_animation that
\* stopped a task the request is first seen at the return, with what was stopped
Returned(c) ==
    IF c.kind = "stop" /\ c.task # 0
    THEN [IdleCall EXCEPT !.pc = "returned", !.kind = c.kind,
                          !.device = c.device, !.task = c.task]
    ELSE IdleCall

\* start_animation reserves a task id: the model starts a call only if one is left
StartsInFlight == {k \in Requests : call[k].kind = "start" /\ call[k].pc = "await_task"}
IdLeft == Cardinality(UnusedIds(task)) > Cardinality(StartsInFlight)

\* a request calls stop_animation(d) or start_animation(d, p, f); the call runs to its
\* first suspension: the end, or `await task` on a task that is not done
BeginCall(k, kind, d, p, f) ==
    LET c  == [pc |-> "idle", kind |-> kind, device |-> d, preset |-> p,
               duration |-> f, task |-> active_animations[d]]
        t  == active_animations[d]
        st == [Animator EXCEPT !.task = IF t = 0 THEN @ ELSE Cancel(@, t)]
    IN  /\ IF t = 0
           THEN /\ SetAnimator(IF kind = "start" THEN SpawnTail(st, d, p, f) ELSE st)
                /\ call' = [call EXCEPT ![k] = Returned(c)]
           ELSE IF Done(task[t])
           THEN /\ SetAnimator(CallTail(st, kind, d, p, f))
                /\ call' = [call EXCEPT ![k] = Returned(c)]
           ELSE /\ SetAnimator(st)
                /\ call' = [call EXCEPT ![k] = [c EXCEPT !.pc = "await_task"]]
        /\ UNCHANGED <<chanVars, ctlVars, histVars, renderVars, hostVars, cfgVars>>

\* YURAGIAnimator.start_animation(d, p, f), called by request k
StartAnimation(k, d, p, f) ==
    /\ call[k].pc = "idle"
    /\ IdLeft
    /\ BeginCall(k, "start", d, p, f)

\* YURAGIAnimator.stop_animation(d), called by request k
StopAnimation(k, d) ==
    /\ call[k].pc = "idle"
    /\ BeginCall(k, "stop", d, None, 0)

\* the awaited task is done: the call resumes after `await task` and runs to its end
Resume(k) ==
    LET c == call[k]
    IN  /\ c.pc = "await_task"
        /\ Done(task[c.task])
        /\ IF StopRaises(Animator, c.device)
           THEN /\ call' = [call EXCEPT ![k] = [IdleCall EXCEPT !.pc = "raised"]]
                /\ UNCHANGED <<active_animations, animation_configs, task, last_cmd>>
           ELSE /\ SetAnimator(CallTail(Animator, c.kind, c.device, c.preset, c.duration))
                /\ call' = [call EXCEPT ![k] = Returned(c)]
        /\ UNCHANGED <<chanVars, ctlVars, histVars, renderVars, hostVars, cfgVars>>

\* the request that made the call goes on; it may call again
Return(k) ==
    /\ call[k].pc \in {"returned", "raised"}
    /\ call' = [call EXCEPT ![k] = IdleCall]
    /\ UNCHANGED <<chanVars, ctlVars, histVars, renderVars, hostVars,
                   active_animations, animation_configs, task, last_cmd, cfgVars>>

\* _animate_device without its clean-up: the map entry of the actuator is kept
CleanupKept(m, d) == m

\* _animate_device with a clean-up that is not keyed by the actuator
CleanupAll(m, d) == [e \in DOMAIN m |-> 0]

\* _animate_device, clean-up: `if device_id in self._active_animations: del ...`
Cleanup(m, d) == [m EXCEPT ![d] = 0]

\* _animate_device, one wake-up of a task that was not cancelled: the next frame's
\* command, or, the duration reached, the clean-up (no command)
TaskStep(t) ==
    LET tk == task[t]
        d  == tk.device
    IN  /\ Alive(tk)
        /\ ~tk.must_cancel
        /\ IF tk.frame < tk.duration
           THEN /\ last_cmd' = [last_cmd EXCEPT ![d] = FrameCommand(t, tk.preset)]
                /\ task' = [task EXCEPT ![t].frame = @ + 1, ![t].commanded = TRUE]
                /\ UNCHANGED <<active_animations, animation_configs>>
           ELSE /\ task' = [task EXCEPT ![t] = Finished(tk, "completed")]
                /\ active_animations' = Cleanup(active_animations, d)
                /\ animation_configs' = [animation_configs EXCEPT ![d] = None]
                /\ UNCHANGED last_cmd
        /\ UNCHANGED <<chanVars, ctlVars, histVars, renderVars, hostVars, call, cfgVars>>

\* _animate_device, the wake-up of a cancelled task: CancelledError is re-raised
TaskCancelled(t) ==
    /\ Alive(task[t])
    /\ task[t].must_cancel
    /\ task' = [task EXCEPT ![t] = Finished(task[t], "cancelled")]
    /\ UNCHANGED <<chanVars, ctlVars, histVars, renderVars, hostVars,
                   active_animations, animation_configs, last_cmd, call, cfgVars>>

\* YURAGIAnimator.is_active
IsActive(d) == active_animations[d] # 0

NextAnim ==
    \/ \E k \in Requests, r \in StartRequests :
           StartAnimation(k, r.device, r.preset, r.duration)
    \/ \E k \in Requests, d \in Actuators : StopAnimation(k, d)
    \/ \E k \in Requests : Resume(k)
    \/ \E k \in Requests : Return(k)
    \/ \E t \in TaskIds : TaskStep(t)
    \/ \E t \in TaskIds : TaskCancelled(t)

SpecAnim == Init /\ [][NextAnim]_vars

\* C8: when an animation task has ended, a zero-magnitude command follows its last
\* animation command: the last command of an actuator is the animation command of an
\* ended task only while a stop of that actuator is still waiting to finish.
StopPending(d) ==
    \E k \in Requests : call[k].pc = "await_task" /\ call[k].device = d
C8_ZeroAfterTaskEnds ==
    \A t \in TaskIds :
        (Done(task[t]) /\ task[t].commanded /\ last_cmd[task[t].device].by = t)
            => StopPending(task[t].device)

\* C8: a task has reached its duration after issuing a command
C8_TaskCompleted ==
    \E t \in TaskIds : task[t].state = "completed" /\ task[t].commanded

\* C9: at most one animation task per actuator is alive, and every alive task is the
\* one recorded under its actuator in the task map.
C9_OneRecordedTask ==
    /\ \A d \in Actuators :
           Cardinality({t \in TaskIds : Alive(task[t]) /\ task[t].device = d}) <= 1
    /\ \A t \in TaskIds : Alive(task[t]) => active_animations[task[t].device] = t

\* C9: two calls for one actuator are suspended on the same task
C9_TwoCallsWaiting ==
    /\ call["r1"].pc = "await_task"
    /\ call["r2"].pc = "await_task"
    /\ call["r1"].task = call["r2"].task

\* C10: at the step in which stop(actuator) returns for an actuator that had an
\* animation, the task it stopped is done, is_active(actuator) is false and the last
\* command of the actuator has magnitude 0; and a task that is done issues no command.
StopReturns(k) ==
    /\ call[k].pc # "returned"
    /\ call'[k].pc = "returned"
C10_StopReturnsQuiet ==
    [][ /\ \A k \in Requests :
               StopReturns(k) =>
                   /\ Done(task'[call'[k].task])
                   /\ active_animations'[call'[k].device] = 0
                   /\ last_cmd'[call'[k].device].magnitude = 0
        /\ \A t \in TaskIds :
               Done(task[t]) =>
                   /\ task'[t] = task[t]
                   /\ \A d \in Actuators :
                          last_cmd'[d].by = t => last_cmd'[d] = last_cmd[d] ]_vars

\* C10: a stop has returned after cancelling a task that had issued a command
C10_StoppedRunningTask ==
    \E k \in Requests :
        /\ call[k].pc = "returned"
        /\ call[k].kind = "stop"
        /\ call[k].task # 0
        /\ task[call[k].task].state = "cancelled"
        /\ task[call[k].task].commanded

\* ------------------------------------------------------------ SpecAnimFair
\* The event loop runs every callback that is ready and the clock advances, so the
\* timer of `await asyncio.sleep(frame_duration)` fires: a task that can take a step
\* takes it, and a call whose awaited task is done resumes.  Requests are free to
\* call or not.
FairLoop ==
    /\ \A t \in TaskIds : WF_vars(TaskStep(t)) /\ WF_vars(TaskCancelled(t))
    /\ \A k \in Requests : WF_vars(Resume(k))

SpecAnimFair == SpecAnim /\ FairLoop

\* the step in which task t reaches its duration
Completes(t) == task[t].state = "running" /\ task'[t].state = "completed"

\* C11: an animation task that is running and is never cancelled eventually completes
\* (it does not stay running and uncancelled for ever: it leaves that state only by
\* completing or by a cancel); in the step in which it completes is_active of its actuator becomes false, and a
\* completed task is never in the task map and issues no command.
C11_TaskTerminates ==
    /\ \A t \in TaskIds : []<>~(Alive(task[t]) /\ ~task[t].must_cancel)
    /\ [][\A t \in TaskIds :
              /\ Completes(t) => ~IsActive(task[t].device)'
              /\ task[t].state = "completed" =>
                     /\ task'[t] = task[t]
                     /\ \A d \in Actuators :
                            /\ active_animations'[d] # t
                            /\ last_cmd'[d] # last_cmd[d] => last_cmd'[d].by # t]_vars

\* C11: a task has run for its whole duration and completed, and its actuator is idle
C11_RanToCompletion ==
    \E t \in TaskIds :
        /\ task[t].state = "completed"
        /\ task[t].commanded
        /\ ~IsActive(task[t].device)

\* ------------------------------------------------------------ independence of actuators

\* the step is an operation on actuator d: a call of start_animation or
\* stop_animation for d, the resumption of such a call, or a step of a task of d
OperatesOn(d) ==
    \/ \E k \in Requests, r \in StartRequests :
           r.device = d /\ StartAnimation(k, r.device, r.preset, r.duration)
    \/ \E k \in Requests : StopAnimation(k, d)
    \/ \E k \in Requests : call[k].device = d /\ Resume(k)
    \/ \E t \in TaskIds : task[t].device = d /\ (TaskStep(t) \/ TaskCancelled(t))

\* the step leaves actuator d alone: its map and config entries, its tasks (none
\* cancelled, finished or created) and the last command carrying its id
Untouched(d) ==
    /\ active_animations'[d] = active_animations[d]
    /\ animation_configs'[d] = animation_configs[d]
    /\ last_cmd'[d] = last_cmd[d]
    /\ \A t \in TaskIds :
           (task[t].device = d \/ task'[t].device = d) => task'[t] = task[t]

\* C12: start, stop and natural completion of the animation on one actuator never
\* cancel or replace the other actuator's task, never remove its map entry and never
\* issue a command carrying the other actuator's id.
C12_ActuatorsIndependent ==
    [][\A d \in Actuators, e \in Actuators :
           (d # e /\ OperatesOn(d)) => Untouched(e)]_vars

\* C12: the task of actuator 1 has ended while a recorded task of actuator 2, which
\* has issued a command, is running
C12_OneEndsOtherRuns ==
    \E t \in TaskIds, u \in TaskIds :
        /\ task[t].device = 1 /\ Done(task[t])
        /\ task[u].device = 2 /\ Alive(task[u]) /\ task[u].commanded
        /\ active_animations[2] = u

\* ------------------------------------------------------------ SpecFair
\* The controller's threads under fair scheduling: a thread inside a method goes on,
\* and a callback waiting for the lock gets it if the lock is free again and again.
FairThreads ==
    /\ \A w \in Writers : WF_vars(UpdEntry(w)) /\ WF_vars(UpdReturn(w))
    /\ SF_vars(CbAcquire)
    /\ WF_vars(CbRenderChannel) /\ WF_vars(CbRelease)
    /\ WF_vars(CbMeasure) /\ WF_vars(CbTrim)

SpecFair == Spec /\ FairThreads

\* the lock is held only by a thread that is inside its with block
HeldInsideWith ==
    /\ lock \in Writers => pc[lock] = "upd"
    /\ lock = AudioThread => pc[AudioThread] = "render"
    /\ \A t \in Writers \cup {AudioThread} :
           pc[t] \in {"upd", "render"} => lock = t

StreamClient == "w1"

NextStream ==
    \/ \E outcome \in StreamOutcomes : StartStreaming(outcome)
    \/ StopStreaming
    \/ GetLatencyMs
    \/ \E cmd \in VectorCommands : SetVectorForce(StreamClient, cmd)
    \/ CbStopped
    \/ Rendering

SpecStream == Init /\ [][NextStream]_vars

LifecycleState == <<is_streaming, stop_flag, stream>>

\* C14: start_streaming while streaming changes nothing (no second stream), and
\* stop_streaming while not streaming changes nothing; is_streaming is TRUE after a
\* start that succeeds, FALSE after a stop, and no other call changes it.
C14_LifecycleIdempotent ==
    [][ /\ (is_streaming /\ \E outcome \in StreamOutcomes : StartStreaming(outcome))
            => LifecycleState' = LifecycleState
        /\ (~is_streaming /\ StopStreaming) => LifecycleState' = LifecycleState
        /\ StartStreaming("ok") => is_streaming'
        /\ StopStreaming => ~is_streaming'
        /\ is_streaming' # is_streaming => (StartStreaming("ok") \/ StopStreaming) ]_vars

\* C14: stop_streaming has been called on a controller that was not streaming
C14_StoppedWhileStopped ==
    /\ ~is_streaming
    /\ stop_flag
    /\ stream = "None"

\* C15: a start_streaming that fails (device unavailable, stream rejected by the host)
\* leaves the controller as it was: is_streaming false, the stop flag and the stream
\* handle unchanged, the channels and the lock untouched.
C15_FailedStartNoEffect ==
    [][\A outcome \in StreamOutcomes \ {"ok"} :
           (~is_streaming /\ StartStreaming(outcome)) =>
               /\ LifecycleState' = LifecycleState
               /\ UNCHANGED <<chanVars, lock>> ]_vars

\* C15: a start has failed on a stopped controller: it is not streaming, and the stop
\* flag set by the earlier stop_streaming is clear again
C15_FailedAfterStop ==
    /\ ~is_streaming
    /\ ~stop_flag
    /\ stream = "None"
    /\ outdata = "zeros"

\* C16: a callback that finds the stop flag set fills the buffer with zeros and
\* returns: no channel's parameters, active flag or cumulative time change and no
\* duration is recorded; and with the stop flag set no callback goes on to render.
C16_StoppedCallbackSilent ==
    [][ /\ CbStopped =>
               /\ outdata' = "zeros"
               /\ UNCHANGED <<chanVars, callback_times, callbacks>>
        /\ (stop_flag /\ pc[AudioThread] = "idle") => pc'[AudioThread] = "idle" ]_vars

\* C16: a callback has zeroed the buffer after an earlier callback rendered a block of
\* an active channel
C16_ZeroedAfterRender ==
    /\ stop_flag
    /\ outdata = "zeros"
    /\ callbacks > 0
    /\ \E c \in Channels : cumulative_time[c] > 0

\* the durations of the most recent callbacks, oldest first, of k recording callbacks
Recent(k) ==
    [i \in 1 .. (IF k < MaxLatencySamples THEN k ELSE MaxLatencySamples) |->
        i + (IF k < MaxLatencySamples THEN 0 ELSE k - MaxLatencySamples)]

\* C17: in every reachable state the ring of callback durations holds at most
\* MaxLatencySamples entries (100 in the source), and they are the durations of the
\* most recent callbacks in order.
C17_RingBounded ==
    /\ Len(callback_times) <= MaxLatencySamples
    /\ callback_times = Recent(callbacks)

\* C17: get_latency_ms has averaged a ring that holds one entry too many
C17_OverfullObserved == latency_seen > MaxLatencySamples

\* ------------------------------------------------------------ SpecDevice
\* The HapticDevice used directly, as the unit tests of device.py use it: vector-force
\* commands on either actuator (and on an actuator that does not exist), block
\* rendering, and deactivate_all.

\* the angles commanded: the four cardinal directions, whose cosine or sine is a float
\* residue, and one diagonal
ForceAngles == {0, 45, 90, 180, 270}
Frequencies == {80}
\* a force of 0.8 at every angle, a force of 0 (test_device2_automatic_activation), and a
\* command for an actuator that does not exist
ForceCommands ==
    [device_id : {1, 2}, angle : ForceAngles, magnitude : {800}, frequency : Frequencies]
        \cup [device_id : {1, 2}, angle : {0}, magnitude : {0}, frequency : Frequencies]
        \cup {[device_id |-> 3, angle |-> 45, magnitude |-> 800, frequency |-> 80]}

\* HapticDevice.set_vector_force: ValueError for a device id other than 1 and 2, before
\* anything is written
DeviceSetVectorForce(cmd) ==
    /\ IF ValidDevice(cmd.device_id)
       THEN /\ params' = DeviceVectorParams(params, cmd)
            /\ is_active' = DeviceVectorActive(is_active, cmd)
            /\ raised' = None
       ELSE /\ UNCHANGED <<params, is_active>>
            /\ raised' = "ValueError"
    /\ UNCHANGED <<cumulative_time, ctlVars, histVars, renderVars, animVars, hostVars,
                   discrete_mode_enabled, resonator_cfg, noise>>

\* HapticDevice.get_output_block: the channels render one block each, in order, until
\* one of them raises
DeviceGetOutputBlock ==
    /\ \A c \in Channels : cumulative_time[c] + Frames <= MaxTime
    /\ cumulative_time' = BlockTimes(cumulative_time, Frames)
    /\ raised' = IF \E c \in Channels : RenderRaises(c) THEN "ValueError" ELSE None
    /\ UNCHANGED <<params, is_active, ctlVars, histVars, renderVars, animVars, hostVars,
                   discrete_mode_enabled, resonator_cfg, noise>>

\* HapticDevice.deactivate_all
DeviceDeactivateAll ==
    /\ is_active' = [c \in Channels |-> FALSE]
    /\ raised' = None
    /\ UNCHANGED <<params, cumulative_time, ctlVars, histVars, renderVars, animVars, hostVars,
                   discrete_mode_enabled, resonator_cfg, noise>>

NextDevice ==
    \/ \E cmd \in ForceCommands : DeviceSetVectorForce(cmd)
    \/ DeviceGetOutputBlock
    \/ DeviceDeactivateAll

SpecDevice == Init /\ [][NextDevice]_vars

\* C18: set_vector_force(actuator, ...) changes only channels (actuator-1)*2 and
\* (actuator-1)*2+1: every other channel keeps its parameters and its active flag, and
\* no channel's cumulative time changes.
C18_OtherActuatorKept ==
    [][\A cmd \in ForceCommands :
           DeviceSetVectorForce(cmd) =>
               /\ \A c \in Channels \ {(cmd.device_id - 1) * 2, (cmd.device_id - 1) * 2 + 1} :
                      /\ params'[c] = params[c]
                      /\ is_active'[c] = is_active[c]
               /\ cumulative_time' = cumulative_time ]_vars

\* C18: actuator 2 holds a force while actuator 1, commanded earlier with another force
\* and partly rendered, has been deactivated
C18_SecondSetFirstKept ==
    /\ is_active[2] /\ is_active[3]
    /\ params[2].amplitude > 0 /\ cumulative_time[2] = 0
    /\ ~is_active[0] /\ ~is_active[1]
    /\ params[0].amplitude > 0 /\ cumulative_time[0] > 0
    /\ params[0] # params[2]

C20_SecondActuatorMirrored ==
    [][\A cmd \in ForceCommands :
           (cmd.device_id = 2 /\ DeviceSetVectorForce(cmd)) =>
               LET first == DeviceVectorParams(params, [cmd EXCEPT !.device_id = 1])
               IN /\ params'[2].amplitude = first[0].amplitude
                  /\ params'[3].amplitude = first[1].amplitude
                  /\ params'[2].polarity = first[0].polarity
                  /\ (cmd.magnitude > 0 /\ Sin1000(cmd.angle) # 0) =>
                         params'[3].polarity # first[1].polarity ]_vars

\* C20: both actuators have been given the same force with a nonzero Y component, and
\* channel 3 has the polarity of channel 1
C20_SamePolarityBoth ==
    /\ \A c \in Channels : is_active[c]
    /\ params[0] = params[2] /\ params[1] = params[3]
    /\ params[1].amplitude > 0
    /\ params[0].frequency = 80

\* ------------------------------------------------------------ SpecDiscrete
\* The 16-direction mode of the HapticDevice: the mode switch, set_discrete_direction,
\* and set_vector_force beside it.

\* HapticDevice.__init__: num_directions = 16
num_directions == 16
\* direction_idx * direction_step (22.5 degrees), for the even indices of the model
DirectionAngle(direction_idx) == (direction_idx * 45) \div 2
DiscreteRequests ==
    [device_id : {1, 2, 3}, direction_idx : {-1, 0, 2, 6, 16},
     magnitude : {800}, frequency : {80}]

\* a device that accepts discrete directions whatever the mode
ModeAllowsAlways(enabled) == TRUE
\* set_discrete_direction: `if not self.discrete_mode_enabled: raise ValueError`
ModeAllows(enabled) == enabled

\* HapticDevice.enable_16_direction_mode
DeviceEnable16DirectionMode ==
    /\ discrete_mode_enabled' = TRUE
    /\ raised' = None
    /\ UNCHANGED <<chanVars, ctlVars, histVars, renderVars, animVars, hostVars, resonator_cfg, noise>>

\* HapticDevice.disable_16_direction_mode
DeviceDisable16DirectionMode ==
    /\ discrete_mode_enabled' = FALSE
    /\ raised' = None
    /\ UNCHANGED <<chanVars, ctlVars, histVars, renderVars, animVars, hostVars, resonator_cfg, noise>>

\* HapticDevice.set_discrete_direction: ValueError when the mode is off or the index is
\* outside 0..15; else set_vector_force at direction_idx * 22.5 degrees, which raises
\* ValueError for a device id other than 1 and 2 before it writes
DeviceSetDiscreteDirection(req) ==
    LET cmd == [device_id |-> req.device_id, angle |-> DirectionAngle(req.direction_idx),
                magnitude |-> req.magnitude, frequency |-> req.frequency]
        accepted == /\ ModeAllows(discrete_mode_enabled)
                    /\ ~(req.direction_idx < 0 \/ req.direction_idx >= num_directions)
                    /\ ValidDevice(req.device_id)
    IN  /\ IF accepted
           THEN /\ params' = DeviceVectorParams(params, cmd)
                /\ is_active' = DeviceVectorActive(is_active, cmd)
                /\ raised' = None
           ELSE /\ UNCHANGED <<params, is_active>>
                /\ raised' = "ValueError"
        /\ UNCHANGED <<cumulative_time, ctlVars, histVars, renderVars, animVars, hostVars,
                       discrete_mode_enabled, resonator_cfg, noise>>

NextDiscrete ==
    \/ DeviceEnable16DirectionMode
    \/ DeviceDisable16DirectionMode
    \/ \E req \in DiscreteRequests : DeviceSetDiscreteDirection(req)
    \/ \E cmd \in ForceCommands : DeviceSetVectorForce(cmd)
    \/ DeviceDeactivateAll

SpecDiscrete == Init /\ [][NextDiscrete]_vars

\* C21: set_vector_force or set_discrete_direction for an actuator outside {1, 2},
\* set_discrete_direction while the 16-direction mode is off, and set_discrete_direction
\* with an index outside 0..15 fail with an error and leave every channel's parameters
\* and active flag, and the mode flag, unchanged.
C21_RejectedNoEffect ==
    [][ /\ \A cmd \in ForceCommands :
               (cmd.device_id \notin {1, 2} /\ DeviceSetVectorForce(cmd)) =>
                   /\ raised' = "ValueError"
                   /\ UNCHANGED <<params, is_active, discrete_mode_enabled>>
        /\ \A req \in DiscreteRequests :
               ( /\ \/ req.device_id \notin {1, 2}
                    \/ ~discrete_mode_enabled
                    \/ req.direction_idx \notin 0 .. 15
                 /\ DeviceSetDiscreteDirection(req) ) =>
                   /\ raised' = "ValueError"
                   /\ UNCHANGED <<params, is_active, discrete_mode_enabled>> ]_vars

\* C21: a command has been rejected while the mode is on and actuator 1 holds a force
\* (so the rejection was for the index or the actuator)
C21_RejectedInMode ==
    /\ raised = "ValueError"
    /\ discrete_mode_enabled
    /\ is_active[0] /\ params[0].amplitude > 0

\* ------------------------------------------------------------ SpecRest
\* The REST handlers that write channel parameters: PUT /api/parameters,
\* PUT /api/channels/{channel_id} and POST /api/vector-force, each taken as a whole
\* (they run one at a time on the event loop, and the audio thread writes no
\* parameter).

\* settings.min_frequency and settings.max_frequency (config/settings.py)
settings_min_frequency == 0
settings_max_frequency == 120

Fields == {"frequency", "amplitude", "phase", "polarity"}

\* HapticController.update_parameters for a batch whose channel ids are all in 0..3, so
\* that no entry raises: st is [params, is_active]
RECURSIVE UpdateParameters(_, _)
UpdateParameters(st, batch) ==
    IF batch = <<>> THEN st
    ELSE LET e == Head(batch)
             ch_id == ChannelId(e)
         IN  UpdateParameters(
                 [params |-> SetChannelParameters(st.params, ch_id, e),
                  is_active |-> IF Has(e, "amplitude") /\ e.amplitude > 0
                                THEN [st.is_active EXCEPT ![ListIndex(ch_id)] = TRUE]
                                ELSE st.is_active],
                 Tail(batch))

\* the Field constraints shared by ChannelParameters and ChannelUpdate
FieldsValid(e) ==
    /\ Has(e, "frequency") =>
           settings_min_frequency <= e.frequency /\ e.frequency <= settings_max_frequency
    /\ Has(e, "amplitude") => 0 <= e.amplitude /\ e.amplitude <= 1000
    /\ Has(e, "phase") => 0 <= e.phase /\ e.phase <= 360

\* ChannelParameters: channel_id is required and in 0..3
ChannelParametersValid(e) ==
    /\ Has(e, "channel_id") /\ 0 <= e.channel_id /\ e.channel_id <= 3
    /\ FieldsValid(e)

\* ChannelParameters as the handler reads it: a field the request omitted has the
\* default of the model (frequency 0.0, amplitude 0.0, phase 0.0, polarity True)
ChannelParametersDict(e) ==
    [channel_id |-> e.channel_id,
     frequency |-> IF Has(e, "frequency") THEN e.frequency ELSE 0,
     amplitude |-> IF Has(e, "amplitude") THEN e.amplitude ELSE 0,
     phase     |-> IF Has(e, "phase") THEN e.phase ELSE 0,
     polarity  |-> IF Has(e, "polarity") THEN e.polarity ELSE TRUE]

\* request bodies of PUT /api/parameters: a partial entry, a complete entry, two
\* entries, and an entry for a channel that does not exist
ParameterBodies ==
    { <<[channel_id |-> 0, amplitude |-> 500]>>,
      <<[channel_id |-> 1, frequency |-> 80, amplitude |-> 500, phase |-> 90,
         polarity |-> FALSE]>>,
      <<[channel_id |-> 2, frequency |-> 80], [channel_id |-> 3, polarity |-> FALSE]>>,
      <<[channel_id |-> 4, amplitude |-> 500]>> }

\* PUT /api/parameters: 422 for a body that fails validation, else
\* controller.update_parameters with every field of every entry
PutParameters(body) ==
    /\ lock = "free"
    /\ IF \A i \in 1 .. Len(body) : ChannelParametersValid(body[i])
       THEN LET st == UpdateParameters([params |-> params, is_active |-> is_active],
                                       [i \in 1 .. Len(body) |-> ChannelParametersDict(body[i])])
            IN  /\ params' = st.params
                /\ is_active' = st.is_active
                /\ raised' = None
       ELSE /\ UNCHANGED <<params, is_active>>
            /\ raised' = "RequestValidationError"
    /\ UNCHANGED <<cumulative_time, ctlVars, histVars, renderVars, animVars, hostVars,
                   discrete_mode_enabled, resonator_cfg, noise>>

\* get_current_parameters: the list of the four channels' records
CurrentParameters(ps, act) ==
    [i \in 1 .. 4 |->
        [channel_id |-> i - 1, frequency |-> ps[i - 1].frequency,
         amplitude |-> ps[i - 1].amplitude, phase |-> ps[i - 1].phase,
         polarity |-> ps[i - 1].polarity, is_active |-> act[i - 1]]]

\* a merge that writes the provided values into every channel's record
MergeEvery(channels, channel_id, update) ==
    [i \in 1 .. 4 |->
        [k \in DOMAIN channels[i] |-> IF Has(update, k) THEN update[k] ELSE channels[i][k]]]

\* update_channel: channels[channel_id][key] = value for the provided values
MergeUpdate(channels, channel_id, update) ==
    [channels EXCEPT ![channel_id + 1] =
        [k \in DOMAIN @ |-> IF Has(update, k) THEN update[k] ELSE @[k]]]

\* path ids and bodies of PUT /api/channels/{channel_id}; the last body fails validation
ChannelPathIds == {0, 1, 5}
ChannelUpdates ==
    { [frequency |-> 80], [amplitude |-> 500], [amplitude |-> 0, polarity |-> FALSE],
      [phase |-> 90], [frequency |-> 200] }

\* PUT /api/channels/{channel_id}: 422 for an invalid body, 400 for an id outside 0..3;
\* else the current records of the four channels, with the provided values merged into
\* the record of channel_id, go to controller.update_parameters
PutChannel(channel_id, update) ==
    /\ lock = "free"
    /\ IF ~FieldsValid(update)
       THEN /\ UNCHANGED <<params, is_active>>
            /\ raised' = "RequestValidationError"
       ELSE IF channel_id < 0 \/ channel_id > 3
       THEN /\ UNCHANGED <<params, is_active>>
            /\ raised' = "HTTPException"
       ELSE LET channels == MergeUpdate(CurrentParameters(params, is_active),
                                        channel_id, update)
                st == UpdateParameters([params |-> params, is_active |-> is_active],
                                       channels)
            IN  /\ params' = st.params
                /\ is_active' = st.is_active
                /\ raised' = None
    /\ UNCHANGED <<cumulative_time, ctlVars, histVars, renderVars, animVars, hostVars,
                   discrete_mode_enabled, resonator_cfg, noise>>

NextRest ==
    \/ \E body \in ParameterBodies : PutParameters(body)
    \/ \E channel_id \in ChannelPathIds, update \in ChannelUpdates :
           PutChannel(channel_id, update)
    \/ \E cmd \in VectorRequests : DeviceSetVectorForce(cmd)

SpecRest == Init /\ [][NextRest]_vars

\* C22: a partial parameter update overwrites exactly the fields it provides.  For
\* HapticChannel.set_parameters, for an entry of controller.update_parameters and for an
\* entry of PUT /api/parameters, every field the caller omitted keeps the value the
\* channel had before.
C22_OmittedFieldsKept ==
    [][ /\ \A c \in Channels, e \in ParamSets :
               \A k \in Fields \ DOMAIN e : SetParameters(params[c], e)[k] = params[c][k]
        /\ \A w \in Writers :
               (UpdEntry(w) /\ ChannelId(op[w].batch[op[w].i]) \in Channels) =>
                   \A k \in Fields \ DOMAIN op[w].batch[op[w].i] :
                       params'[ChannelId(op[w].batch[op[w].i])][k]
                           = params[ChannelId(op[w].batch[op[w].i])][k]
        /\ \A body \in ParameterBodies :
               (PutParameters(body) /\ raised' = None) =>
                   \A i \in 1 .. Len(body) :
                       \A k \in Fields \ DOMAIN body[i] :
                           params'[body[i].channel_id][k] = params[body[i].channel_id][k]
      ]_vars

\* C22: channel 0 has lost its frequency to a PUT /api/parameters entry that gave only
\* an amplitude
C22_FrequencyReset ==
    /\ params[0].frequency = 0
    /\ params[0].amplitude = 500
    /\ raised = None

\* C24: PUT /api/channels/{id} with id in 0..3 changes only the provided fields of channel
\* id: the other three channels keep their parameters and active flags; with an id
\* outside 0..3 the request is rejected and no channel changes.
C24_OtherChannelsKept ==
    [][\A channel_id \in ChannelPathIds, update \in ChannelUpdates :
           PutChannel(channel_id, update) =>
               /\ \A c \in Channels \ {channel_id} :
                      params'[c] = params[c] /\ is_active'[c] = is_active[c]
               /\ channel_id \in Channels =>
                      \A k \in Fields \ DOMAIN update : params'[channel_id][k] = params[channel_id][k]
               /\ channel_id \notin Channels =>
                      /\ raised' # None
                      /\ UNCHANGED <<params, is_active>> ]_vars

\* C24: channel 1 has been updated by a PUT /api/channels/1 that gave only a phase, while
\* channel 0 holds a vector force
C24_PhaseOnlyUpdate ==
    /\ params[1].phase = 90 /\ params[1].frequency = 60 /\ params[1].amplitude = 565
    /\ params[0].amplitude = 565 /\ is_active[0]
    /\ raised = None

\* C23: update_parameters activates a channel exactly when the entry naming it carries
\* amplitude > 0; an entry with amplitude 0 or without amplitude leaves the active
\* flags alone; no entry deactivates a channel or changes the active flag of a channel
\* (0..3) that it does not name.
C23_ActivatesNamedOnly ==
    [][\A w \in Writers :
           UpdEntry(w) =>
               LET e == op[w].batch[op[w].i]
                   ch_id == ChannelId(e)
                   positive == Has(e, "amplitude") /\ e.amplitude > 0
               IN  /\ (positive /\ ch_id \in Channels) => is_active'[ch_id]
                   /\ ~positive => is_active' = is_active
                   /\ \A c \in Channels : is_active[c] => is_active'[c]
                   /\ \A c \in Channels \ {ch_id} : is_active'[c] = is_active[c] ]_vars

\* C23: channel 3 is active with the parameters of a fresh channel: it was activated by
\* an entry that named channel -1
C23_UnnamedActivated ==
    /\ is_active[3]
    /\ params[3] = InitialParams
    /\ \A w \in Writers : pc[w] = "idle"

\* C25: a POST /api/vector-force request received while streaming is not active is
\* rejected with an error: the handler does not go on to the device, and no channel's
\* parameters or active flag change.
C25_VectorForceNeedsStreaming ==
    [][ /\ \A cmd \in VectorRequests :
               (~is_streaming /\ PostVectorForce(cmd)) =>
                   /\ pc'[LoopThread] = "idle"
                   /\ raised' # None
        /\ (~is_streaming /\ pc[LoopThread] \in {"vf_x", "vf_y", "vf_act_x", "vf_act_y"}) =>
               UNCHANGED <<params, is_active>> ]_vars

\* C25: a vector force has been applied to actuator 1 by a request that arrived while the
\* controller was not streaming
C25_AppliedWhileStopped ==
    /\ ~is_streaming
    /\ pc[LoopThread] = "vf_params"
    /\ is_active[0] /\ is_active[1]
    /\ params[0].amplitude > 0

\* C26: enable_resonator with a natural frequency or damping ratio that is not positive
\* fails with an error at the call and leaves the channel's resonator settings
\* unchanged, so that no later render fails because of the resonator settings.
C26_ResonatorValidated ==
    [][ /\ \A cfg \in ResonatorSettings :
               (ResonatorRejects(cfg) /\ ChEnableResonator(cfg)) =>
                   /\ raised' = "ValueError"
                   /\ UNCHANGED <<resonator_enabled, resonator_cfg>>
        /\ \A n \in 1 .. MaxBlock : ChGetNextChunk(n) => raised' = None ]_vars

\* C26: a render of the active channel has failed on resonator settings that
\* enable_resonator accepted, after the cumulative time was advanced
C26_RenderFailed ==
    /\ raised = "ValueError"
    /\ resonator_enabled[Rendered]
    /\ ResonatorRejects(resonator_cfg[Rendered])
    /\ cumulative_time[Rendered] > 0

\* C27: after any sequence of vector-force commands, activations, deactivations and
\* device block renders from the initial state, the two channels of one actuator have
\* the same cumulative time.
C27_ActuatorInStep ==
    \A base \in {0, 2} : cumulative_time[base] = cumulative_time[base + 1]

\* C27: actuator 1 holds a force along X (angle 0, so its Y amplitude is exactly 0);
\* both channels are active, and only the X channel has advanced
C27_OnlyXAdvanced ==
    /\ is_active[0] /\ is_active[1]
    /\ params[0].amplitude = 800 /\ params[1].amplitude = 0
    /\ cumulative_time[0] > 0 /\ cumulative_time[1] = 0

\* ------------------------------------------------------------ SpecLifecycle
\* start_streaming and stop_streaming called from different threads: neither takes the
\* lock, so the statements of the two calls interleave.

\* start_streaming: `if self.is_streaming: return`
StartCheck(w) ==
    /\ pc[w] = "idle" /\ ~is_streaming
    /\ pc' = [pc EXCEPT ![w] = "start_clear"]
    /\ UNCHANGED <<chanVars, lock, is_streaming, stop_flag, op, histVars, renderVars,
                   animVars, hostVars, cfgVars>>

\* start_streaming: self._stop_flag = False
StartClear(w) ==
    /\ pc[w] = "start_clear"
    /\ stop_flag' = FALSE
    /\ pc' = [pc EXCEPT ![w] = "start_open"]
    /\ UNCHANGED <<chanVars, lock, is_streaming, op, histVars, renderVars, animVars,
                   hostVars, cfgVars>>

\* start_streaming: the availability check and the opening of the stream; every
\* failure raises out of the call
StartOpen(w, outcome) ==
    /\ pc[w] = "start_open"
    /\ stream' = CASE outcome = "ok" -> "open"
                   [] outcome = "start_failed" -> "unstarted"
                   [] OTHER -> stream
    /\ pc' = [pc EXCEPT ![w] = IF outcome = "ok" THEN "start_flag" ELSE "idle"]
    /\ UNCHANGED <<chanVars, lock, is_streaming, stop_flag, op, histVars, renderVars,
                   animVars, outdata, callback_times, callbacks, latency_seen, cfgVars>>

\* start_streaming: self.is_streaming = True
StartFlag(w) ==
    /\ pc[w] = "start_flag"
    /\ is_streaming' = TRUE
    /\ pc' = [pc EXCEPT ![w] = "idle"]
    /\ UNCHANGED <<chanVars, lock, stop_flag, op, histVars, renderVars, animVars,
                   hostVars, cfgVars>>

\* stop_streaming: self.is_streaming = False
StopClear(w) ==
    /\ pc[w] = "idle"
    /\ is_streaming' = FALSE
    /\ pc' = [pc EXCEPT ![w] = "stop_flag"]
    /\ UNCHANGED <<chanVars, lock, stop_flag, op, histVars, renderVars, animVars,
                   hostVars, cfgVars>>

\* stop_streaming: self._stop_flag = True
StopFlag(w) ==
    /\ pc[w] = "stop_flag"
    /\ stop_flag' = TRUE
    /\ pc' = [pc EXCEPT ![w] = "stop_close"]
    /\ UNCHANGED <<chanVars, lock, is_streaming, op, histVars, renderVars, animVars,
                   hostVars, cfgVars>>

\* stop_streaming: the stream, if any, is closed and forgotten
StopClose(w) ==
    /\ pc[w] = "stop_close"
    /\ stream' = "None"
    /\ pc' = [pc EXCEPT ![w] = "idle"]
    /\ UNCHANGED <<chanVars, lock, is_streaming, stop_flag, op, histVars, renderVars,
                   animVars, outdata, callback_times, callbacks, latency_seen, cfgVars>>

NextLifecycle ==
    \/ \E w \in Writers :
           \/ StartCheck(w)
           \/ StartClear(w)
           \/ \E outcome \in StreamOutcomes : StartOpen(w, outcome)
           \/ StartFlag(w)
           \/ StopClear(w)
           \/ StopFlag(w)
           \/ StopClose(w)
    \/ CbStopped

SpecLifecycle == Init /\ [][NextLifecycle]_vars

\* C28: under any interleaving of start_streaming and stop_streaming calls from different
\* threads, whenever is_streaming is true the stop flag is clear and a stream handle is
\* held.
C28_StreamingMeansLive ==
    is_streaming => (~stop_flag /\ stream # "None")

\* C28: both calls have returned and the controller reports streaming with the stop
\* flag set and no stream, and a callback has emitted the forced silence
C28_StreamingButStopped ==
    /\ \A w \in Writers : pc[w] = "idle"
    /\ is_streaming /\ stop_flag /\ stream = "None"
    /\ outdata = "zeros"

\* ------------------------------------------ the cumulative time of a channel
\* HapticChannel.enable_noise: ValueError for a level outside [0, 1], else the noise is
\* switched on at that level (the generator is rebuilt, which holds no time)
ChEnableNoise(level) ==
    /\ IF level < 0 \/ level > 100
       THEN /\ raised' = "ValueError"
            /\ UNCHANGED noise
       ELSE /\ raised' = None
            /\ noise' = [noise EXCEPT ![Rendered] = [enabled |-> TRUE, level |-> level]]
    /\ run' = NoRun
    /\ UNCHANGED <<animVars, hostVars, chanVars, ctlVars, histVars, resonator_enabled, out,
                   last_render, discrete_mode_enabled, resonator_cfg>>

\* HapticChannel.disable_noise
ChDisableNoise ==
    /\ noise[Rendered].enabled
    /\ noise' = [noise EXCEPT ![Rendered].enabled = FALSE]
    /\ raised' = None
    /\ run' = NoRun
    /\ UNCHANGED <<animVars, hostVars, chanVars, ctlVars, histVars, resonator_enabled, out,
                   last_render, discrete_mode_enabled, resonator_cfg>>

\* every operation on a channel, the two controller-level writes, and the device's render
NextTimeline ==
    \/ \E e \in ParamSets : ChSetParameters(e)
    \/ ChActivate
    \/ ChDeactivate
    \* enable_resonator with the default settings and with a zero damping ratio
    \/ \E zeta \in {resonator_zeta, 0} :
           ChEnableResonator([f_n |-> resonator_f_n, zeta |-> zeta])
    \/ ChDisableResonator
    \* enable_noise with a level in range and a level above 1, in hundredths
    \/ \E level \in {5, 150} : ChEnableNoise(level)
    \/ ChDisableNoise
    \/ \E body \in { <<[channel_id |-> 0, amplitude |-> 500]>>,
                      <<[channel_id |-> 2, frequency |-> 80],
                        [channel_id |-> 3, polarity |-> FALSE]>> } : PutParameters(body)
    \* one force per actuator
    \/ \E cmd \in { [device_id |-> 1, angle |-> 45, magnitude |-> 800, frequency |-> 80],
                     [device_id |-> 2, angle |-> 0, magnitude |-> 800, frequency |-> 80] } :
           DeviceSetVectorForce(cmd)
    \/ DeviceGetOutputBlock

SpecTimeline == Init /\ [][NextTimeline]_vars

\* C29: only a render changes a channel's cumulative time: set_parameters (a frequency
\* change included), activate, deactivate, enable/disable_resonator,
\* enable/disable_noise, update_parameters and set_vector_force leave the cumulative
\* time of every channel as it was. A step that is not the device's render keeps it.
C29_OnlyRenderMovesTime ==
    [][~DeviceGetOutputBlock => UNCHANGED cumulative_time]_vars

\* a channel that was rendered and then deactivated, with noise and resonator switched on
C29_ChangedAfterRender ==
    /\ cumulative_time[Rendered] > 0
    /\ ~is_active[Rendered]
    /\ noise[Rendered].enabled
    /\ resonator_enabled[Rendered]
    /\ params[Rendered].frequency = 80

\* -------------------------------------------- a render that fails in the callback
\* The controller streaming, forces applied through the controller, the resonator of a
\* channel switched on through controller.device.channels[...] with any settings, and
\* the audio callback.
NextFailure ==
    \/ \E outcome \in StreamOutcomes : StartStreaming(outcome)
    \/ StopStreaming
    \/ \E cmd \in VectorCommands : SetVectorForce(StreamClient, cmd)
    \/ \E cfg \in ResonatorSettings : ChEnableResonator(cfg)
    \/ ChDisableResonator
    \/ CbStopped
    \/ Rendering

SpecFailure == Init /\ [][NextFailure]_vars

\* C30: if rendering raises inside the audio callback, the callback writes an all-zero
\* block, goes on to return with the lock released, and no channel's cumulative time is
\* moved: the step of the callback in which a channel raises leaves every cumulative
\* time as it was.
C30_FailedBlockAdvancesNothing ==
    [][(CbRenderChannel /\ RenderRaises(op[AudioThread].i))
           => /\ outdata' = "zeros"
              /\ lock' = "free"
              /\ pc'[AudioThread] = "measure"
              /\ UNCHANGED cumulative_time]_vars

\* a callback whose render raised: the zero block is written, the lock is free, the
\* callback is on its way out, and the failing channel's cumulative time has moved
C30_FailedBlockAdvanced ==
    /\ outdata = "zeros"
    /\ pc[AudioThread] = "measure"
    /\ lock = "free"
    /\ RenderRaises(Rendered)
    /\ cumulative_time[Rendered] > 0

====
